---- MODULE Spec2Model ----
(***************************************************************************)
(* Model of the ORM table engine of x/group/internal/orm: the type-safe    *)
(* row getter (types.go) and Table.Create/Update/Delete/Has/GetOne with    *)
(* their interceptor chains (the "package table" part of nft.pb.go), on    *)
(* top of an ordered byte-keyed store shared by several tables.            *)
(* Records are NFT messages; their wire format is the generated            *)
(* NFT.Marshal / NFT.Unmarshal of nft.pb.go.                               *)
(***************************************************************************)
EXTENDS Integers, Sequences, FiniteSets, TLC

\* ---------------------------------------------------------------- bounds
\* number of Table operations called in one behaviour
MaxOps == 3
\* interceptors registered on each chain of the table
MaxItc == 2

\* ------------------------------------------------------------ input sets
\* row ids used as inputs: the empty one, a key, a longer key that starts
\* with it, and an unrelated key
RowIDs == {<<>>, <<1>>, <<1, 1>>, <<2>>}

\* prefix bytes of the tables that share the store
Prefixes == {1, 2}

\* NFT values (strings are byte sequences; Data is always nil)
ZeroNFT == [ClassId |-> <<>>, Id |-> <<>>, Uri |-> <<>>, UriHash |-> <<>>]
SomeNFT == [ClassId |-> <<99>>, Id |-> <<105>>, Uri |-> <<>>, UriHash |-> <<>>]
NFTs == {ZeroNFT, SomeNFT}

\* objects handed to the table: a pointer or a plain value of a message
\* type, with the outcome of its ValidateBasic ("none": the type does not
\* implement Validateable)
Obj(kind, type, val, validate) ==
    [kind |-> kind, type |-> type, val |-> val, validate |-> validate]

Objs ==
    {Obj("ptr", "NFT", ZeroNFT, "none"),
     Obj("ptr", "NFT", SomeNFT, "ok"),
     Obj("ptr", "NFT", SomeNFT, "fail"),
     Obj("ptr", "Class", ZeroNFT, "fail"),
     Obj("val", "NFT", SomeNFT, "none")}

\* destinations handed to GetOne: freshly allocated values
Dests ==
    {Obj("ptr", "NFT", ZeroNFT, "none"),
     Obj("ptr", "Class", ZeroNFT, "none"),
     Obj("val", "NFT", ZeroNFT, "none")}

\* the nil object (oldValue of Create, dest of operations without one)
NilObj == Obj("nil", "nil", ZeroNFT, "none")

\* ------------------------------------------------------------ byte order
RECURSIVE Compare(_, _)
Compare(a, b) ==
    IF a = <<>> /\ b = <<>> THEN 0
    ELSE IF a = <<>> THEN -1
    ELSE IF b = <<>> THEN 1
    ELSE IF Head(a) < Head(b) THEN -1
    ELSE IF Head(a) > Head(b) THEN 1
    ELSE Compare(Tail(a), Tail(b))

\* optional byte slices: nil or a slice
NilBytes == [nil |-> TRUE, bytes |-> <<>>]
Bytes(b) == [nil |-> FALSE, bytes |-> b]

\* ---------------------------------------------------------------- codec
RECURSIVE encodeVarintNft(_)
encodeVarintNft(v) ==
    IF v >= 128 THEN <<(v % 128) + 128>> \o encodeVarintNft(v \div 128)
    ELSE <<v>>

MarshalField(tag, s) ==
    IF Len(s) > 0 THEN <<tag>> \o encodeVarintNft(Len(s)) \o s ELSE <<>>

\* a slip in the generated tags: Id is written under the tag of ClassId
Marshal_TagSlip(m) ==
    MarshalField(10, m.ClassId) \o MarshalField(10, m.Id)
        \o MarshalField(26, m.Uri) \o MarshalField(34, m.UriHash)

\* NFT.Marshal: the buffer is filled from its end, highest field first, so
\* the fields appear in ascending order; empty strings are left out
Marshal(m) ==
    MarshalField(10, m.ClassId) \o MarshalField(18, m.Id)
        \o MarshalField(26, m.Uri) \o MarshalField(34, m.UriHash)

\* one base-128 varint read at index i (1-based) of d
RECURSIVE DecodeVarint(_, _, _, _)
DecodeVarint(d, i, shift, acc) ==
    IF shift >= 64 THEN [err |-> "ErrIntOverflow", v |-> 0, next |-> i]
    ELSE IF i > Len(d) THEN [err |-> "ErrUnexpectedEOF", v |-> 0, next |-> i]
    ELSE LET b == d[i]
             v == acc + (b % 128) * (2 ^ shift)
         IN IF b < 128 THEN [err |-> "nil", v |-> v, next |-> i + 1]
            ELSE DecodeVarint(d, i + 1, shift + 7, v)

FieldName(n) ==
    CASE n = 1 -> "ClassId" [] n = 2 -> "Id" [] n = 3 -> "Uri"
      [] n = 4 -> "UriHash" [] OTHER -> "unknown"

\* NFT.Unmarshal from index i on, into m: fields present on the wire are
\* assigned, the others are left as they are in m
\* (field 10, Data, and unknown fields end the decoding with "ErrSkipped":
\* they do not occur, every payload in the store is written by Marshal with
\* Data nil)
RECURSIVE UnmarshalFrom(_, _, _)
UnmarshalFrom(d, i, m) ==
    IF i > Len(d) THEN [err |-> "nil", m |-> m]
    ELSE LET w == DecodeVarint(d, i, 0, 0)
             fieldNum == w.v \div 8
             wireType == w.v % 8
         IN IF w.err # "nil" THEN [err |-> w.err, m |-> m]
            ELSE IF wireType = 4 \/ fieldNum <= 0
                 THEN [err |-> "ErrProto", m |-> m]
            ELSE IF fieldNum \in 1..4
                 THEN IF wireType # 2 THEN [err |-> "ErrProto", m |-> m]
                      ELSE LET n == DecodeVarint(d, w.next, 0, 0)
                               postIndex == n.next + n.v
                           IN IF n.err # "nil" THEN [err |-> n.err, m |-> m]
                              ELSE IF postIndex > Len(d) + 1
                                   THEN [err |-> "ErrUnexpectedEOF", m |-> m]
                              ELSE UnmarshalFrom(d, postIndex,
                                     [m EXCEPT ![FieldName(fieldNum)] =
                                        SubSeq(d, n.next, postIndex - 1)])
            ELSE [err |-> "ErrSkipped", m |-> m]

Unmarshal(d, m) == UnmarshalFrom(d, 1, m)

\* codec.Codec of the table: delegates to the message's own methods
cdcMarshal(obj) == Marshal(obj.val)
cdcUnmarshal(bz, dest) ==
    LET r == Unmarshal(bz, dest.val)
    IN [err |-> r.err, dest |-> [dest EXCEPT !.val = r.m]]

\* ---------------------------------------------------------------- store
\* the store is a function from the raw keys present to their values
EmptyStore == [k \in {} |-> <<>>]

KVSet(s, key, v) ==
    [k \in (DOMAIN s) \cup {key} |-> IF k = key THEN v ELSE s[k]]

KVDelete(s, key) == [k \in (DOMAIN s) \ {key} |-> s[k]]

\* keys of S in ascending byte order
RECURSIVE Ascending(_)
Ascending(S) ==
    IF S = {} THEN <<>>
    ELSE LET m == CHOOSE x \in S : \A y \in S : Compare(x, y) <= 0
         IN <<m>> \o Ascending(S \ {m})

\* prefix.Store over s: every key is addressed as prefix \o key
PSet(s, prefix, key, v) == KVSet(s, prefix \o key, v)
PDelete(s, prefix, key) == KVDelete(s, prefix \o key)

IsPrefixOf(p, k) == Len(k) >= Len(p) /\ SubSeq(k, 1, Len(p)) = p
Strip(p, k) == SubSeq(k, Len(p) + 1, Len(k))

\* prefix.Store.Iterator(start, end): the keys of the namespace within
\* [start, end), ascending, with the prefix stripped
PIterator(s, prefix, start, end) ==
    Ascending({Strip(prefix, k) : k \in
        {k \in DOMAIN s :
            /\ IsPrefixOf(prefix, k)
            /\ Compare(start, Strip(prefix, k)) <= 0
            /\ end.nil \/ Compare(Strip(prefix, k), end.bytes) < 0}})

\* the range that holds the single key rowID: [rowID, rowID \o 0x00)
PrefixRange(rowID) == [start |-> rowID, end |-> Bytes(rowID \o <<0>>)]

\* ------------------------------------------------------ typed row getter
\* the record type the table was built for (Builder.model)
Model == "NFT"

\* reflect.New(a.model): a pointer to a zero value of the table's type
NewModel == Obj("ptr", Model, ZeroNFT, "none")

\* only the pointer kind is checked, the element type is not compared
assertCorrectType_KindOnly(model, obj) ==
    IF obj.kind # "ptr" THEN "ErrType" ELSE "nil"

assertCorrectType(model, obj) ==
    IF obj.kind # "ptr" THEN "ErrType"
    ELSE IF model # obj.type THEN "ErrType"
    ELSE "nil"

\* the error of ValidateBasic is dropped
assertValid_Ignored(obj) == "nil"

assertValid(obj) ==
    IF obj.validate # "none" /\ obj.validate = "fail" THEN "ErrValidate"
    ELSE "nil"

\* the iterator is read without asking whether it is valid
RowGetter_NoValidCheck(s, prefixKey, rowID, dest) ==
    IF Len(rowID) = 0 THEN [err |-> "ErrArgument", dest |-> dest]
    ELSE IF assertCorrectType(Model, dest) # "nil"
         THEN [err |-> assertCorrectType(Model, dest), dest |-> dest]
    ELSE LET rg == PrefixRange(rowID)
             it == PIterator(s, prefixKey, rg.start, rg.end)
         IN IF it = <<>> THEN cdcUnmarshal(<<>>, dest)
            ELSE cdcUnmarshal(s[prefixKey \o Head(it)], dest)

\* the RowGetter returned by NewTypeSafeRowGetter(prefixKey, model, cdc),
\* applied to (store, rowID, dest): the error and the destination afterwards
RowGetter(s, prefixKey, rowID, dest) ==
    IF Len(rowID) = 0 THEN [err |-> "ErrArgument", dest |-> dest]
    ELSE IF assertCorrectType(Model, dest) # "nil"
         THEN [err |-> assertCorrectType(Model, dest), dest |-> dest]
    ELSE LET rg == PrefixRange(rowID)
             it == PIterator(s, prefixKey, rg.start, rg.end)
         IN IF it = <<>> THEN [err |-> "ErrNotFound", dest |-> dest]
            ELSE cdcUnmarshal(s[prefixKey \o Head(it)], dest)

\* ---------------------------------------------------------------- Table
GetOne(s, prefix, rowID, dest) == RowGetter(s, <<prefix>>, rowID, dest)

\* the probe accepts any row id that starts with rowID
Has_PrefixMatch(s, prefix, rowID) ==
    \E k \in DOMAIN s :
        IsPrefixOf(<<prefix>>, k) /\ IsPrefixOf(rowID, Strip(<<prefix>>, k))

Has(s, prefix, rowID) ==
    LET rg == PrefixRange(rowID)
    IN PIterator(s, <<prefix>>, rg.start, rg.end) # <<>>

\* the record found under the row is handed to the interceptors as old value
CreateWrite_LoadsOld(s, prefix, rowID, obj) ==
    IF assertCorrectType(Model, obj) # "nil"
    THEN [err |-> assertCorrectType(Model, obj), store |-> s, old |-> NilObj]
    ELSE IF assertValid(obj) # "nil"
         THEN [err |-> assertValid(obj), store |-> s, old |-> NilObj]
    ELSE [err |-> "nil",
          store |-> PSet(s, <<prefix>>, rowID, cdcMarshal(obj)),
          old |-> LET g == GetOne(s, prefix, rowID, NewModel)
                  IN IF g.err = "nil" THEN g.dest ELSE NilObj]

\* the encoded object is never handed to the store
CreateWrite_NoSet(s, prefix, rowID, obj) ==
    IF assertCorrectType(Model, obj) # "nil"
    THEN [err |-> assertCorrectType(Model, obj), store |-> s, old |-> NilObj]
    ELSE IF assertValid(obj) # "nil"
         THEN [err |-> assertValid(obj), store |-> s, old |-> NilObj]
    ELSE [err |-> "nil", store |-> s, old |-> NilObj]

\* Table.Create up to its interceptor loop: the error returned before the
\* loop ("nil": the loop is entered), the store, and the old value that the
\* interceptors receive
CreateWrite(s, prefix, rowID, obj) ==
    IF assertCorrectType(Model, obj) # "nil"
    THEN [err |-> assertCorrectType(Model, obj), store |-> s, old |-> NilObj]
    ELSE IF assertValid(obj) # "nil"
         THEN [err |-> assertValid(obj), store |-> s, old |-> NilObj]
    ELSE [err |-> "nil",
          store |-> PSet(s, <<prefix>>, rowID, cdcMarshal(obj)),
          old |-> NilObj]

\* the new value is written to the store itself, under the row id without
\* the prefix of the table
UpdateWrite_RawKey(s, prefix, rowID, newValue) ==
    IF assertCorrectType(Model, newValue) # "nil"
    THEN [err |-> assertCorrectType(Model, newValue), store |-> s,
          old |-> NilObj]
    ELSE IF assertValid(newValue) # "nil"
         THEN [err |-> assertValid(newValue), store |-> s, old |-> NilObj]
    ELSE LET g == GetOne(s, prefix, rowID, NewModel)
         IN IF g.err # "nil"
            THEN [err |-> g.err, store |-> s, old |-> NilObj]
            ELSE [err |-> "nil",
                  store |-> KVSet(s, rowID, cdcMarshal(newValue)),
                  old |-> g.dest]

\* the old value is loaded after the key has been overwritten
UpdateWrite_OldAfterSet(s, prefix, rowID, newValue) ==
    IF assertCorrectType(Model, newValue) # "nil"
    THEN [err |-> assertCorrectType(Model, newValue), store |-> s,
          old |-> NilObj]
    ELSE IF assertValid(newValue) # "nil"
         THEN [err |-> assertValid(newValue), store |-> s, old |-> NilObj]
    ELSE LET g == GetOne(s, prefix, rowID, NewModel)
             t == PSet(s, <<prefix>>, rowID, cdcMarshal(newValue))
         IN IF g.err # "nil"
            THEN [err |-> g.err, store |-> s, old |-> NilObj]
            ELSE [err |-> "nil", store |-> t,
                  old |-> GetOne(t, prefix, rowID, NewModel).dest]

\* the error of loading the old value is dropped
UpdateWrite_NoLoad(s, prefix, rowID, newValue) ==
    IF assertCorrectType(Model, newValue) # "nil"
    THEN [err |-> assertCorrectType(Model, newValue), store |-> s,
          old |-> NilObj]
    ELSE IF assertValid(newValue) # "nil"
         THEN [err |-> assertValid(newValue), store |-> s, old |-> NilObj]
    ELSE [err |-> "nil",
          store |-> PSet(s, <<prefix>>, rowID, cdcMarshal(newValue)),
          old |-> GetOne(s, prefix, rowID, NewModel).dest]

\* the new value is encoded but the key is not overwritten
UpdateWrite_NoSet(s, prefix, rowID, newValue) ==
    IF assertCorrectType(Model, newValue) # "nil"
    THEN [err |-> assertCorrectType(Model, newValue), store |-> s,
          old |-> NilObj]
    ELSE IF assertValid(newValue) # "nil"
         THEN [err |-> assertValid(newValue), store |-> s, old |-> NilObj]
    ELSE LET g == GetOne(s, prefix, rowID, NewModel)
         IN IF g.err # "nil"
            THEN [err |-> g.err, store |-> s, old |-> NilObj]
            ELSE [err |-> "nil", store |-> s, old |-> g.dest]

\* Table.Update up to its interceptor loop
UpdateWrite(s, prefix, rowID, newValue) ==
    IF assertCorrectType(Model, newValue) # "nil"
    THEN [err |-> assertCorrectType(Model, newValue), store |-> s,
          old |-> NilObj]
    ELSE IF assertValid(newValue) # "nil"
         THEN [err |-> assertValid(newValue), store |-> s, old |-> NilObj]
    ELSE LET g == GetOne(s, prefix, rowID, NewModel)
         IN IF g.err # "nil"
            THEN [err |-> g.err, store |-> s, old |-> NilObj]
            ELSE [err |-> "nil",
                  store |-> PSet(s, <<prefix>>, rowID, cdcMarshal(newValue)),
                  old |-> g.dest]

\* every row whose id starts with rowID is removed
DeleteWrite_Range(s, prefix, rowID) ==
    LET g == GetOne(s, prefix, rowID, NewModel)
    IN IF g.err # "nil"
       THEN [err |-> g.err, store |-> s, old |-> NilObj]
       ELSE [err |-> "nil",
             store |-> [k \in {x \in DOMAIN s :
                                  ~IsPrefixOf(<<prefix>> \o rowID, x)} |-> s[k]],
             old |-> g.dest]

\* the error of loading the old value is dropped
DeleteWrite_NoLoad(s, prefix, rowID) ==
    [err |-> "nil", store |-> PDelete(s, <<prefix>>, rowID),
     old |-> GetOne(s, prefix, rowID, NewModel).dest]

\* the old value is loaded but the key is not removed
DeleteWrite_KeepsKey(s, prefix, rowID) ==
    LET g == GetOne(s, prefix, rowID, NewModel)
    IN IF g.err # "nil"
       THEN [err |-> g.err, store |-> s, old |-> NilObj]
       ELSE [err |-> "nil", store |-> s, old |-> g.dest]

\* Table.Delete up to its interceptor loop
DeleteWrite(s, prefix, rowID) ==
    LET g == GetOne(s, prefix, rowID, NewModel)
    IN IF g.err # "nil"
       THEN [err |-> g.err, store |-> s, old |-> NilObj]
       ELSE [err |-> "nil", store |-> PDelete(s, <<prefix>>, rowID),
             old |-> g.dest]

\* the operation returns nil as soon as one interceptor has succeeded
LoopStep_ReturnsEarly(i, failed) ==
    IF failed THEN [return |-> TRUE, err |-> "ErrInterceptor", itc |-> i,
                    next |-> i]
    ELSE [return |-> TRUE, err |-> "nil", itc |-> -1, next |-> i + 1]

\* the error of an interceptor is dropped and the loop goes on
LoopStep_Continue(i, failed) ==
    [return |-> FALSE, err |-> "nil", itc |-> -1, next |-> i + 1]

\* one turn of "for i, itc := range chain": what the loop does once the
\* interceptor at index i has returned
LoopStep(i, failed) ==
    IF failed THEN [return |-> TRUE, err |-> "ErrInterceptor", itc |-> i,
                    next |-> i]
    ELSE [return |-> FALSE, err |-> "nil", itc |-> -1, next |-> i + 1]

\* ---------------------------------------------------------------- state
VARIABLES
    store,        \* the shared KVStore
    afterSave,    \* Table.afterSave: interceptors in registration order
    afterDelete,  \* Table.afterDelete
    pc,           \* "idle", or the interceptor loop the operation is in
    call,         \* the operation called last and its loop index
    ret,          \* what the last operation returned
    dest,         \* the destination of the last GetOne after the call
    invoked,      \* interceptor invocations of the last operation
    nops,         \* operations called so far
    iter,         \* the Iterator returned by the last scan
    bld           \* the Builder, the slices it shares with its Table

vars == <<store, afterSave, afterDelete, pc, call, ret, dest, invoked, nops,
          iter, bld>>

\* no scan has been called
NoIter ==
    [kind |-> "none", prefix |-> 0, reverse |-> FALSE,
     start |-> NilBytes, end |-> NilBytes,
     cursor |-> <<>>, pos |-> 0, opened |-> 0, closes |-> 0,
     yielded |-> <<>>, done |-> FALSE]

\* the Table was built elsewhere: no Builder is followed
NoBuilder == [state |-> "none"]

SaveNames == <<"S0", "S1", "S2", "S3", "S4", "S5">>
DeleteNames == <<"D0", "D1", "D2", "D3", "D4", "D5">>

Ret(err, itc, has) == [err |-> err, itc |-> itc, has |-> has]
Pending == Ret("pending", -1, FALSE)

\* before: what the store held under the row when a write operation was
\* called
Call(op, prefix, rowID, obj, old, i) ==
    [op |-> op, prefix |-> prefix, rowID |-> rowID, obj |-> obj,
     old |-> old, i |-> i, before |-> NilBytes]

\* the value the store holds under the row of the running operation
Stored(s, prefix, rowID) ==
    IF <<prefix>> \o rowID \in DOMAIN s
    THEN Bytes(s[<<prefix>> \o rowID]) ELSE NilBytes

Init ==
    /\ store = EmptyStore
    /\ afterSave = SubSeq(SaveNames, 1, MaxItc)
    /\ afterDelete = SubSeq(DeleteNames, 1, MaxItc)
    /\ pc = "idle"
    /\ call = Call("none", 1, <<>>, NilObj, NilObj, 0)
    /\ ret = Ret("nil", -1, FALSE)
    /\ dest = NilObj
    /\ invoked = <<>>
    /\ nops = 0
    /\ iter = NoIter
    /\ bld = NoBuilder

\* an operation is called: the part before its interceptor loop
Begin(op, prefix, rowID, obj, o, loop) ==
    /\ store' = o.store
    /\ call' = [Call(op, prefix, rowID, obj, o.old, 0)
                   EXCEPT !.before = Stored(store, prefix, rowID)]
    /\ invoked' = <<>>
    /\ dest' = NilObj
    /\ nops' = nops + 1
    /\ IF o.err = "nil"
       THEN pc' = loop /\ ret' = Pending
       ELSE pc' = "idle" /\ ret' = Ret(o.err, -1, FALSE)
    /\ UNCHANGED <<afterSave, afterDelete, iter, bld>>

Create(prefix, rowID, obj) ==
    /\ pc = "idle" /\ nops < MaxOps
    /\ Begin("Create", prefix, rowID, obj,
             CreateWrite(store, prefix, rowID, obj), "afterSave")

Update(prefix, rowID, newValue) ==
    /\ pc = "idle" /\ nops < MaxOps
    /\ Begin("Update", prefix, rowID, newValue,
             UpdateWrite(store, prefix, rowID, newValue), "afterSave")

Delete(prefix, rowID) ==
    /\ pc = "idle" /\ nops < MaxOps
    /\ Begin("Delete", prefix, rowID, NilObj,
             DeleteWrite(store, prefix, rowID), "afterDelete")

Chain == IF pc = "afterSave" THEN afterSave ELSE afterDelete

\* the loop calls the interceptor at index call.i, which returns an error
\* or nil
Intercept(failed) ==
    /\ pc \in {"afterSave", "afterDelete"}
    /\ call.i < Len(Chain)
    /\ invoked' = Append(invoked,
          [chain |-> pc, name |-> Chain[call.i + 1], idx |-> call.i,
           rowID |-> call.rowID,
           new |-> IF pc = "afterSave" THEN call.obj ELSE NilObj,
           old |-> call.old,
           saw |-> Stored(store, call.prefix, call.rowID),
           failed |-> failed])
    /\ LET st == LoopStep(call.i, failed)
       IN /\ call' = [call EXCEPT !.i = st.next]
          /\ IF st.return
             THEN pc' = "idle" /\ ret' = Ret(st.err, st.itc, FALSE)
             ELSE UNCHANGED <<pc, ret>>
    /\ UNCHANGED <<store, afterSave, afterDelete, dest, nops, iter, bld>>

\* the loop is over: the operation returns nil
Return ==
    /\ pc \in {"afterSave", "afterDelete"}
    /\ call.i >= Len(Chain)
    /\ pc' = "idle"
    /\ ret' = Ret("nil", -1, FALSE)
    /\ UNCHANGED <<store, afterSave, afterDelete, call, dest, invoked, nops,
                   iter, bld>>

CallHas(prefix, rowID) ==
    /\ pc = "idle" /\ nops < MaxOps
    /\ call' = Call("Has", prefix, rowID, NilObj, NilObj, 0)
    /\ ret' = Ret("nil", -1, Has(store, prefix, rowID))
    /\ invoked' = <<>>
    /\ dest' = NilObj
    /\ nops' = nops + 1
    /\ UNCHANGED <<store, afterSave, afterDelete, pc, iter, bld>>

\* the row that was read is taken out of the store
CallGetOne_Consumes(prefix, rowID, d) ==
    /\ pc = "idle" /\ nops < MaxOps
    /\ LET g == GetOne(store, prefix, rowID, d)
       IN /\ ret' = Ret(g.err, -1, FALSE)
          /\ dest' = g.dest
          /\ store' = IF g.err = "nil" THEN PDelete(store, <<prefix>>, rowID)
                      ELSE store
    /\ call' = Call("GetOne", prefix, rowID, d, NilObj, 0)
    /\ invoked' = <<>>
    /\ nops' = nops + 1
    /\ UNCHANGED <<afterSave, afterDelete, pc, iter, bld>>

CallGetOne(prefix, rowID, d) ==
    /\ pc = "idle" /\ nops < MaxOps
    /\ LET g == GetOne(store, prefix, rowID, d)
       IN /\ ret' = Ret(g.err, -1, FALSE)
          /\ dest' = g.dest
    /\ call' = Call("GetOne", prefix, rowID, d, NilObj, 0)
    /\ invoked' = <<>>
    /\ nops' = nops + 1
    /\ UNCHANGED <<store, afterSave, afterDelete, pc, iter, bld>>

Next ==
    \/ \E p \in Prefixes, k \in RowIDs, o \in Objs : Create(p, k, o)
    \/ \E p \in Prefixes, k \in RowIDs, o \in Objs : Update(p, k, o)
    \/ \E p \in Prefixes, k \in RowIDs : Delete(p, k)
    \/ \E f \in BOOLEAN : Intercept(f)
    \/ Return
    \/ \E p \in Prefixes, k \in RowIDs : CallHas(p, k)
    \/ \E p \in Prefixes, k \in RowIDs, d \in Dests : CallGetOne(p, k, d)

Spec == Init /\ [][Next]_vars

\* ---------------------------------------------------------------- scans
\* calls of Close on one iterator in one behaviour
MaxCloses == 2

RECURSIVE Reverse(_)
Reverse(q) == IF q = <<>> THEN <<>> ELSE Reverse(Tail(q)) \o <<Head(q)>>

\* sdk.KVStore.Iterator(start, end): the raw keys within [start, end),
\* ascending; a nil bound is open
KVIterator(s, start, end) ==
    Ascending({k \in DOMAIN s :
        /\ start.nil \/ Compare(start.bytes, k) <= 0
        /\ end.nil \/ Compare(k, end.bytes) < 0})

\* sdk.KVStore.ReverseIterator(start, end): the same keys, descending
KVReverseIterator(s, start, end) == Reverse(KVIterator(s, start, end))

\* equal bounds are let through
InvalidRange_Strict(start, end) ==
    ~start.nil /\ ~end.nil /\ Compare(start.bytes, end.bytes) > 0

\* start != nil && end != nil && bytes.Compare(start, end) >= 0
InvalidRange(start, end) ==
    ~start.nil /\ ~end.nil /\ Compare(start.bytes, end.bytes) >= 0

\* NewInvalidIterator(): an iterator without a store cursor
NewInvalidIterator(prefix, start, end, reverse) ==
    [NoIter EXCEPT !.kind = "invalid", !.prefix = prefix, !.start = start,
                   !.end = end, !.reverse = reverse]

\* &typeSafeIterator{rowGetter: ..., it: cursor}
NewTypeSafeIterator(prefix, start, end, reverse, cursor) ==
    [NoIter EXCEPT !.kind = "typeSafe", !.prefix = prefix, !.start = start,
                   !.end = end, !.reverse = reverse, !.cursor = cursor,
                   !.opened = 1]

\* Table.PrefixScan: the error and the iterator returned
TablePrefixScan(s, prefix, start, end) ==
    IF InvalidRange(start, end)
    THEN [err |-> "ErrArgument",
          iter |-> NewInvalidIterator(prefix, start, end, FALSE)]
    ELSE [err |-> "nil",
          iter |-> NewTypeSafeIterator(prefix, start, end, FALSE,
                                       KVIterator(s, start, end))]

\* Table.ReversePrefixScan
TableReversePrefixScan(s, prefix, start, end) ==
    IF InvalidRange(start, end)
    THEN [err |-> "ErrArgument",
          iter |-> NewInvalidIterator(prefix, start, end, TRUE)]
    ELSE [err |-> "nil",
          iter |-> NewTypeSafeIterator(prefix, start, end, TRUE,
                                       KVReverseIterator(s, start, end))]

\* the cursor stays on a row that failed to load
typeSafeLoadNext_StaysOnError(s, it, d) ==
    IF it.pos >= Len(it.cursor)
    THEN [err |-> "ErrIteratorDone", rowID |-> <<>>, dest |-> d,
          iter |-> [it EXCEPT !.done = TRUE]]
    ELSE LET rowID == it.cursor[it.pos + 1]
             g == RowGetter(s, <<it.prefix>>, rowID, d)
         IN [err |-> g.err, rowID |-> rowID, dest |-> g.dest,
             iter |-> [it EXCEPT
                 !.pos = IF g.err = "nil" THEN it.pos + 1 ELSE it.pos,
                 !.yielded = Append(it.yielded,
                     [rowID |-> rowID, err |-> g.err, val |-> g.dest.val,
                      typed |-> (d.kind = "ptr" /\ d.type = Model)])]]

\* typeSafeIterator.LoadNext(store, dest): the error, the row id and the
\* destination returned, and the iterator afterwards
typeSafeLoadNext(s, it, d) ==
    IF it.pos >= Len(it.cursor)
    THEN [err |-> "ErrIteratorDone", rowID |-> <<>>, dest |-> d,
          iter |-> [it EXCEPT !.done = TRUE]]
    ELSE LET rowID == it.cursor[it.pos + 1]
             g == RowGetter(s, <<it.prefix>>, rowID, d)
         IN [err |-> g.err, rowID |-> rowID, dest |-> g.dest,
             iter |-> [it EXCEPT
                 !.pos = it.pos + 1,
                 !.yielded = Append(it.yielded,
                     [rowID |-> rowID, err |-> g.err, val |-> g.dest.val,
                      typed |-> (d.kind = "ptr" /\ d.type = Model)])]]

\* LoadNext of the iterator that NewInvalidIterator returns
invalidLoadNext(s, it, d) ==
    [err |-> "ErrIteratorInvalid", rowID |-> <<>>, dest |-> d, iter |-> it]

\* typeSafeIterator.Close: forwards to the Close of the store cursor
typeSafeClose(it) == [it EXCEPT !.closes = it.closes + 1]

\* bounds handed to the scans
ScanBounds == {NilBytes, Bytes(<<1>>), Bytes(<<1, 1>>), Bytes(<<2>>)}

\* destinations handed to LoadNext
LoadDests ==
    {Obj("ptr", "NFT", ZeroNFT, "none"), Obj("ptr", "Class", ZeroNFT, "none")}

\* a scan is called and returns its iterator
BeginScan(op, prefix, o) ==
    /\ pc = "idle" /\ iter.kind = "none"
    /\ iter' = o.iter
    /\ ret' = Ret(o.err, -1, FALSE)
    /\ call' = Call(op, prefix, <<>>, NilObj, NilObj, 0)
    /\ invoked' = <<>>
    /\ dest' = NilObj
    /\ UNCHANGED <<store, afterSave, afterDelete, pc, nops, bld>>

PrefixScan(prefix, start, end) ==
    BeginScan("PrefixScan", prefix, TablePrefixScan(store, prefix, start, end))

ReversePrefixScan(prefix, start, end) ==
    BeginScan("ReversePrefixScan", prefix,
              TableReversePrefixScan(store, prefix, start, end))

\* LoadNext on the open iterator
LoadNext(d) ==
    /\ pc = "idle" /\ iter.kind # "none" /\ iter.closes = 0
    /\ LET r == IF iter.kind = "invalid"
                THEN invalidLoadNext(store, iter, d)
                ELSE typeSafeLoadNext(store, iter, d)
       IN /\ iter' = r.iter
          /\ ret' = Ret(r.err, -1, FALSE)
          /\ dest' = r.dest
          /\ call' = Call("LoadNext", iter.prefix, r.rowID, d, NilObj, 0)
    /\ invoked' = <<>>
    /\ UNCHANGED <<store, afterSave, afterDelete, pc, nops, bld>>

\* Close on the iterator
Close ==
    /\ pc = "idle" /\ iter.kind # "none" /\ iter.closes < MaxCloses
    /\ iter' = IF iter.kind = "invalid" THEN iter ELSE typeSafeClose(iter)
    /\ ret' = Ret("nil", -1, FALSE)
    /\ call' = Call("Close", iter.prefix, <<>>, NilObj, NilObj, 0)
    /\ invoked' = <<>>
    /\ dest' = NilObj
    /\ UNCHANGED <<store, afterSave, afterDelete, pc, nops, bld>>

\* rows are created, then one scan is opened, read and closed; no write
\* happens while the iterator exists
ScanNext ==
    \/ \E p \in Prefixes, k \in RowIDs \ {<<>>} :
          iter.kind = "none" /\ Create(p, k, Obj("ptr", "NFT", SomeNFT, "ok"))
    \/ \E f \in BOOLEAN : Intercept(f)
    \/ Return
    \/ \E p \in Prefixes, a \in ScanBounds, b \in ScanBounds :
          PrefixScan(p, a, b)
    \/ \E p \in Prefixes, a \in ScanBounds, b \in ScanBounds :
          ReversePrefixScan(p, a, b)
    \/ \E d \in LoadDests : LoadNext(d)
    \/ Close

SpecScan == Init /\ [][ScanNext]_vars

\* the read operations of a Table next to each other: rows are created,
\* looked up with Has and GetOne, scanned
ReadKeys == {<<>>, <<1>>}
ReadBounds == {NilBytes, Bytes(<<1>>)}

ReadNext ==
    \/ \E p \in Prefixes, k \in {<<1>>, <<1, 1>>} :
          iter.kind = "none" /\ Create(p, k, Obj("ptr", "NFT", SomeNFT, "ok"))
    \/ \E f \in BOOLEAN : Intercept(f)
    \/ Return
    \/ \E k \in ReadKeys : CallHas(1, k)
    \/ \E k \in ReadKeys, d \in Dests : CallGetOne(1, k, d)
    \/ \E a \in ReadBounds, b \in ReadBounds : PrefixScan(1, a, b)
    \/ \E a \in ReadBounds, b \in ReadBounds : ReversePrefixScan(1, a, b)
    \/ \E d \in LoadDests : LoadNext(d)

SpecRead == Init /\ [][ReadNext]_vars

\* -------------------------------------------------------------- Builder
\* calls of AddAfterSaveInterceptor and AddAfterDeleteInterceptor in one
\* behaviour
MaxAdds == 4

\* a Go slice: backing array (index into the heap, 0: none), length and
\* capacity; the nil slice of a new Builder
NilSlice == [arr |-> 0, len |-> 0, cap |-> 0]

\* the elements a slice shows
View(heap, sl) ==
    IF sl.len = 0 THEN <<>> ELSE SubSeq(heap[sl.arr], 1, sl.len)

\* append(sl, x): written in place when the capacity allows, otherwise into
\* a new array of doubled capacity
SliceAppend(heap, sl, x) ==
    IF sl.len < sl.cap
    THEN [heap |-> [heap EXCEPT ![sl.arr][sl.len + 1] = x],
          slice |-> [sl EXCEPT !.len = sl.len + 1]]
    ELSE LET newcap == IF sl.cap = 0 THEN 1 ELSE 2 * sl.cap
             newarr == [j \in 1..newcap |->
                           IF j <= sl.len THEN heap[sl.arr][j]
                           ELSE IF j = sl.len + 1 THEN x ELSE "unset"]
         IN [heap |-> Append(heap, newarr),
             slice |-> [arr |-> Len(heap) + 1, len |-> sl.len + 1,
                        cap |-> newcap]]

\* no constructor has run yet
NewBuilderState ==
    [state |-> "start", model |-> "nil", idxKeyCodec |-> "nil", cdc |-> "nil",
     heap |-> <<>>, afterSave |-> NilSlice, afterDelete |-> NilSlice,
     regSave |-> <<>>, regDelete |-> <<>>,
     table |-> [exists |-> FALSE, model |-> "nil", cdc |-> "nil",
                afterSave |-> NilSlice, afterDelete |-> NilSlice,
                snapSave |-> <<>>, snapDelete |-> <<>>],
     adds |-> 0]

\* NewTableBuilder: panics, or returns the Builder
NewTableBuilderResult(b, model, idxKeyCodec, cdc) ==
    IF model = "nil" THEN [b EXCEPT !.state = "panicked"]
    ELSE IF idxKeyCodec = "nil" THEN [b EXCEPT !.state = "panicked"]
    ELSE [b EXCEPT !.state = "builder", !.model = model,
                   !.idxKeyCodec = idxKeyCodec, !.cdc = cdc]

\* the Table's slices span the whole capacity of the Builder's arrays
BuildTable_FullCap(b) ==
    [exists |-> TRUE, model |-> b.model, cdc |-> b.cdc,
     afterSave |-> [b.afterSave EXCEPT !.len = b.afterSave.cap],
     afterDelete |-> [b.afterDelete EXCEPT !.len = b.afterDelete.cap],
     snapSave |-> b.regSave, snapDelete |-> b.regDelete]

\* Builder.Build: the Table gets copies of the slice headers (snapSave and
\* snapDelete remember what was registered at that moment)
BuildTable(b) ==
    [exists |-> TRUE, model |-> b.model, cdc |-> b.cdc,
     afterSave |-> b.afterSave, afterDelete |-> b.afterDelete,
     snapSave |-> b.regSave, snapDelete |-> b.regDelete]

BuilderInit ==
    /\ store = EmptyStore
    /\ afterSave = <<>>
    /\ afterDelete = <<>>
    /\ pc = "idle"
    /\ call = Call("none", 1, <<>>, NilObj, NilObj, 0)
    /\ ret = Ret("nil", -1, FALSE)
    /\ dest = NilObj
    /\ invoked = <<>>
    /\ nops = 0
    /\ iter = NoIter
    /\ bld = NewBuilderState

\* the chains of the Table are what its slices show in the heap
SyncTable(b) ==
    /\ bld' = b
    /\ afterSave' = View(b.heap, b.table.afterSave)
    /\ afterDelete' = View(b.heap, b.table.afterDelete)
    /\ UNCHANGED <<store, pc, call, ret, dest, invoked, nops, iter>>

NewTableBuilder(model, idxKeyCodec, cdc) ==
    /\ bld.state = "start"
    /\ SyncTable(NewTableBuilderResult(bld, model, idxKeyCodec, cdc))

AddAfterSaveInterceptor ==
    /\ bld.state = "builder" /\ pc = "idle" /\ bld.adds < MaxAdds
    /\ LET x == SaveNames[Len(bld.regSave) + 1]
           a == SliceAppend(bld.heap, bld.afterSave, x)
       IN SyncTable([bld EXCEPT !.heap = a.heap, !.afterSave = a.slice,
                                !.regSave = Append(bld.regSave, x),
                                !.adds = bld.adds + 1])

AddAfterDeleteInterceptor ==
    /\ bld.state = "builder" /\ pc = "idle" /\ bld.adds < MaxAdds
    /\ LET x == DeleteNames[Len(bld.regDelete) + 1]
           a == SliceAppend(bld.heap, bld.afterDelete, x)
       IN SyncTable([bld EXCEPT !.heap = a.heap, !.afterDelete = a.slice,
                                !.regDelete = Append(bld.regDelete, x),
                                !.adds = bld.adds + 1])

Build ==
    /\ bld.state = "builder" /\ pc = "idle" /\ ~bld.table.exists
    /\ SyncTable([bld EXCEPT !.table = BuildTable(bld)])

\* an operation of the built Table with a nil codec: a.cdc.Marshal panics
NilCodecPanic(op, prefix, rowID, obj) ==
    /\ pc = "idle" /\ nops < MaxOps
    /\ call' = Call(op, prefix, rowID, obj, NilObj, 0)
    /\ ret' = Ret("panic", -1, FALSE)
    /\ nops' = nops + 1
    /\ invoked' = <<>>
    /\ dest' = NilObj
    /\ UNCHANGED <<store, afterSave, afterDelete, pc, iter, bld>>

\* the rows the built Table is used on
BuiltCreate(rowID, obj) ==
    /\ bld.table.exists
    /\ IF bld.table.cdc = "nil"
       THEN NilCodecPanic("Create", 1, rowID, obj)
       ELSE Create(1, rowID, obj)

BuiltDelete(rowID) ==
    /\ bld.table.exists
    /\ Delete(1, rowID)

BuilderNext ==
    \/ \E m \in {"nil", Model}, i \in {"nil", "codec"}, c \in {"nil", "codec"} :
          NewTableBuilder(m, i, c)
    \/ AddAfterSaveInterceptor
    \/ AddAfterDeleteInterceptor
    \/ Build
    \/ BuiltCreate(<<1>>, Obj("ptr", "NFT", SomeNFT, "ok"))
    \/ BuiltDelete(<<1>>)
    \/ \E f \in BOOLEAN : Intercept(f)
    \/ Return

SpecBuilder == BuilderInit /\ [][BuilderNext]_vars

\* ------------------------------------------------------------ properties
\* the raw key of the row an operation addresses
Key(c) == <<c.prefix>> \o c.rowID

\* a pointer to a value of the table's record type
Typed(obj) == obj.kind = "ptr" /\ obj.type = Model

\* C1: a successful Create(k, r) with a non-empty k, immediately followed by
\* GetOne(k, dest) on the same table, returns no error and leaves dest
\* equal to r, whatever else the store holds.
C1_RoundTrip ==
    [][(/\ pc = "idle" /\ call.op = "Create" /\ ret.err = "nil"
        /\ Len(call.rowID) > 0
        /\ nops' = nops + 1 /\ call'.op = "GetOne"
        /\ call'.prefix = call.prefix /\ call'.rowID = call.rowID
        /\ Typed(call'.obj))
       => (ret'.err = "nil" /\ dest'.val = call.obj.val)]_vars

\* a GetOne has returned a non-zero record while the store holds other rows
C1_Witness ==
    /\ call.op = "GetOne" /\ ret.err = "nil"
    /\ dest.val = SomeNFT
    /\ Cardinality(DOMAIN store) >= 2

\* C2: GetOne(k, dest) with a non-empty k succeeds with the record stored
\* under exactly k in the table's namespace, and returns ErrNotFound when
\* nothing is stored under exactly k, also when longer row ids that start
\* with k exist.
C2_GetOneExactKey ==
    (call.op = "GetOne" /\ Len(call.rowID) > 0 /\ Typed(call.obj))
    => IF Key(call) \in DOMAIN store
       THEN ret.err = "nil" /\ Marshal(dest.val) = store[Key(call)]
       ELSE ret.err = "ErrNotFound" /\ dest = call.obj

\* GetOne(<<1>>) found nothing although <<1, 1>> is in the same table
C2_Witness ==
    /\ call.op = "GetOne" /\ call.rowID = <<1>> /\ Typed(call.obj)
    /\ ret.err = "ErrNotFound"
    /\ <<call.prefix, 1, 1>> \in DOMAIN store

\* C3: Update(k, r) on a k under which nothing is stored leaves the store as
\* it was, enters no AfterSave interceptor and returns an error, which is
\* ErrNotFound when k is non-empty and r is a valid record of the table's
\* type.
C3_NoImplicitCreation ==
    [][(/\ nops' = nops + 1 /\ call'.op = "Update"
        /\ Key(call') \notin DOMAIN store)
       => (/\ store' = store
           /\ pc' = "idle" /\ invoked' = <<>>
           /\ ret'.err # "nil"
           /\ (/\ Len(call'.rowID) > 0 /\ Typed(call'.obj)
               /\ call'.obj.validate # "fail") => ret'.err = "ErrNotFound")]_vars

\* Update(<<1>>) was refused while <<1, 1>> is in the same table
C3_Witness ==
    /\ call.op = "Update" /\ call.rowID = <<1>>
    /\ ret.err = "ErrNotFound"
    /\ Key(call) \notin DOMAIN store
    /\ <<call.prefix, 1, 1>> \in DOMAIN store

\* C4: once Delete(k) has succeeded on a row that was created, Has(k) is
\* false and GetOne(k, _) returns ErrNotFound, whatever other rows the table
\* holds.
C4_DeleteRemoves ==
    (call.op = "Delete" /\ pc = "idle" /\ ret.err = "nil")
    => /\ ~Has(store, call.prefix, call.rowID)
       /\ GetOne(store, call.prefix, call.rowID, NewModel).err = "ErrNotFound"

\* Delete(<<1>>) succeeded while <<1, 1>> stays in the same table
C4_Witness ==
    /\ call.op = "Delete" /\ pc = "idle" /\ ret.err = "nil"
    /\ call.rowID = <<1>>
    /\ <<call.prefix, 1, 1>> \in DOMAIN store

\* the chain an operation runs
ChainOf(op) == IF op = "Delete" THEN afterDelete ELSE afterSave

\* C5: in Create, Update and Delete the interceptors of the operation's
\* chain are invoked in registration order; the first one to fail ends the
\* operation, which returns its error with its index, and no later
\* interceptor is invoked.
C5_InterceptorOrder ==
    /\ \A j \in 1..Len(invoked) :
          /\ invoked[j].idx = j - 1
          /\ j <= Len(ChainOf(call.op))
          /\ invoked[j].name = ChainOf(call.op)[j]
          /\ invoked[j].chain =
                (IF call.op = "Delete" THEN "afterDelete" ELSE "afterSave")
          /\ invoked[j].failed =>
                /\ j = Len(invoked)
                /\ pc = "idle"
                /\ ret = Ret("ErrInterceptor", j - 1, FALSE)
    /\ ret.err = "ErrInterceptor" =>
          Len(invoked) > 0 /\ invoked[Len(invoked)].failed

\* the first of two AfterSave interceptors failed in a Create
C5_Witness ==
    /\ call.op = "Create" /\ pc = "idle"
    /\ ret = Ret("ErrInterceptor", 0, FALSE)
    /\ Len(invoked) = 1 /\ Len(afterSave) >= 2

\* C6: when an interceptor fails the raw mutation stays: after a failed
\* Create(k, r) or Update(k, r) the store holds r under k, after a failed
\* Delete(k) the key k is absent.
C6_NoRollback ==
    (pc = "idle" /\ ret.err = "ErrInterceptor")
    => IF call.op = "Delete"
       THEN Key(call) \notin DOMAIN store
       ELSE /\ Key(call) \in DOMAIN store
            /\ Unmarshal(store[Key(call)], ZeroNFT) =
                  [err |-> "nil", m |-> call.obj.val]

\* a Create of a non-zero record was failed by an interceptor
C6_Witness ==
    /\ call.op = "Create" /\ pc = "idle" /\ ret.err = "ErrInterceptor"
    /\ call.obj.val = SomeNFT

\* C7: every AfterSave interceptor is invoked when the store already holds
\* the new value under rowID, every AfterDelete interceptor when rowID is
\* already absent; none runs before the raw mutation of its operation.
C7_PostState ==
    /\ \A j \in 1..Len(invoked) :
          IF invoked[j].chain = "afterSave"
          THEN invoked[j].saw = Bytes(Marshal(invoked[j].new.val))
          ELSE invoked[j].saw = NilBytes
    /\ pc = "afterSave" =>
          Stored(store, call.prefix, call.rowID) = Bytes(Marshal(call.obj.val))
    /\ pc = "afterDelete" =>
          Stored(store, call.prefix, call.rowID) = NilBytes

\* both AfterSave interceptors ran in an Update that changed the record
C7_Witness ==
    /\ call.op = "Update" /\ Len(invoked) = 2
    /\ call.old.val # call.obj.val

\* C8: when ValidateBasic of a record of the table's type returns an error,
\* Create and Update return that error, the store is unchanged and no
\* interceptor is invoked.
C8_ValidationFirst ==
    [][(/\ nops' = nops + 1 /\ call'.op \in {"Create", "Update"}
        /\ Typed(call'.obj) /\ call'.obj.validate = "fail")
       => (/\ ret'.err = "ErrValidate"
           /\ store' = store
           /\ pc' = "idle" /\ invoked' = <<>>)]_vars

\* an Update of an existing row was refused by ValidateBasic
C8_Witness ==
    /\ call.op = "Update" /\ ret.err = "ErrValidate"
    /\ Key(call) \in DOMAIN store

\* C9: GetOne with a destination that is not a pointer to the table's record
\* type leaves the destination and the store as they were and returns an
\* error, which is ErrType for every non-empty row id; Create and Update
\* with such an object return ErrType and leave the store unchanged.
C9_TypeSafety ==
    [][(/\ nops' = nops + 1
        /\ call'.op \in {"GetOne", "Create", "Update"}
        /\ ~Typed(call'.obj))
       => (/\ store' = store /\ pc' = "idle" /\ invoked' = <<>>
           /\ ret'.err # "nil"
           /\ call'.op = "GetOne" =>
                 /\ dest' = call'.obj
                 /\ Len(call'.rowID) > 0 => ret'.err = "ErrType"
           /\ call'.op # "GetOne" => ret'.err = "ErrType")]_vars

\* GetOne with a pointer to another type on a row that holds a record
C9_Witness ==
    /\ call.op = "GetOne" /\ ret.err = "ErrType"
    /\ call.obj.kind = "ptr" /\ call.obj.type # Model
    /\ Key(call) \in DOMAIN store /\ store[Key(call)] # <<>>
    /\ dest = call.obj

\* C10: Create, Update, Delete and GetOne called with a zero-length row id
\* (and an object that is otherwise acceptable) return ErrArgument, write
\* and delete nothing, and invoke no interceptor.
C10_EmptyKeyRejected ==
    [][(/\ nops' = nops + 1
        /\ call'.op \in {"Create", "Update", "Delete", "GetOne"}
        /\ call'.rowID = <<>>
        /\ call'.obj = NilObj
              \/ (Typed(call'.obj) /\ call'.obj.validate # "fail"))
       => (/\ ret'.err = "ErrArgument"
           /\ store' = store
           /\ pc' = "idle" /\ invoked' = <<>>)]_vars

\* the row ids of a table within [start, end), ascending
RowsIn(s, prefix, start, end) ==
    PIterator(s, <<prefix>>, IF start.nil THEN <<>> ELSE start.bytes, end)

\* every LoadNext of the iterator got a pointer to the table's record type
AllTyped == \A j \in 1..Len(iter.yielded) : iter.yielded[j].typed

\* the LoadNext calls of the iterator returned exactly the rows q, in that
\* order, each with the record stored under it
Yielded(q) ==
    /\ Len(iter.yielded) = Len(q)
    /\ \A j \in 1..Len(q) :
          /\ iter.yielded[j].rowID = q[j]
          /\ iter.yielded[j].err = "nil"
          /\ <<iter.prefix>> \o q[j] \in DOMAIN store
          /\ Marshal(iter.yielded[j].val) = store[<<iter.prefix>> \o q[j]]

\* C11: on a store shared by several tables, PrefixScan(nil, nil) on a table
\* followed by LoadNext until ErrIteratorDone yields every row id of that
\* table once, ascending, each with its record, and no key of another
\* table.
C11_FullScan ==
    (/\ iter.kind = "typeSafe" /\ ~iter.reverse
     /\ iter.start.nil /\ iter.end.nil
     /\ iter.done /\ AllTyped)
    => Yielded(RowsIn(store, iter.prefix, NilBytes, NilBytes))

\* C12: for non-nil start < end, PrefixScan(start, end) yields the row ids k
\* of the table with start <= k < end, ascending, and ReversePrefixScan the
\* same row ids, descending.
C12_BoundedScan ==
    (/\ iter.kind = "typeSafe"
     /\ ~iter.start.nil /\ ~iter.end.nil
     /\ iter.done /\ AllTyped)
    => LET rows == RowsIn(store, iter.prefix, iter.start, iter.end)
       IN Yielded(IF iter.reverse THEN Reverse(rows) ELSE rows)

\* C13: a scan with non-nil start >= end returns ErrArgument and an
\* iterator that is not null, on which every LoadNext returns
\* ErrIteratorInvalid or ErrIteratorDone and no row; no store cursor is
\* opened.
C13_InvalidRange ==
    (/\ iter.kind # "none"
     /\ ~iter.start.nil /\ ~iter.end.nil
     /\ Compare(iter.start.bytes, iter.end.bytes) >= 0)
    => /\ iter.kind = "invalid"
       /\ iter.opened = 0
       /\ iter.yielded = <<>>
       /\ call.op \in {"PrefixScan", "ReversePrefixScan"} =>
             ret.err = "ErrArgument"
       /\ call.op = "LoadNext" =>
             /\ ret.err \in {"ErrIteratorInvalid", "ErrIteratorDone"}
             /\ dest = call.obj

\* LoadNext on the iterator of a scan with start = end, over a stored row
C13_Witness ==
    /\ iter.kind = "invalid" /\ call.op = "LoadNext"
    /\ iter.start = Bytes(<<1>>) /\ iter.end = Bytes(<<1>>)
    /\ <<iter.prefix, 1>> \in DOMAIN store

\* C14: on an iterator over n rows the first n LoadNext calls return n
\* distinct rows and the next one returns ErrIteratorDone; after that every
\* LoadNext returns ErrIteratorDone.
C14_Exhaustion ==
    (iter.kind = "typeSafe" /\ AllTyped)
    => /\ \A j \in 1..Len(iter.yielded) :
             /\ iter.yielded[j].err = "nil"
             /\ \A i \in 1..Len(iter.yielded) :
                   iter.yielded[i].rowID = iter.yielded[j].rowID => i = j
       /\ iter.done =>
             /\ Len(iter.yielded) = Len(iter.cursor)
             /\ call.op = "LoadNext" => ret.err = "ErrIteratorDone"

\* C15: a second or later Close has no further effect: the store cursor is
\* released once.
C15_CloseOnce == iter.closes <= 1

\* C16: for a non-empty k, Has(k) is true exactly when a record is stored
\* under k itself, that is exactly when GetOne(k, dest) does not return
\* ErrNotFound; it is false when only longer row ids that start with k
\* exist.
C16_HasExact ==
    (call.op = "Has" /\ Len(call.rowID) > 0)
    => /\ ret.has = (Key(call) \in DOMAIN store)
       /\ ret.has =
             (GetOne(store, call.prefix, call.rowID, NewModel).err
                 # "ErrNotFound")

\* Has(<<1>>) is false although <<1, 1>> is in the same table
C16_Witness ==
    /\ call.op = "Has" /\ call.rowID = <<1>> /\ ~ret.has
    /\ <<call.prefix, 1, 1>> \in DOMAIN store

\* what PrefixScan(nil, nil) and LoadNext until ErrIteratorDone return
RECURSIVE Drain(_, _)
Drain(s, it) ==
    LET r == typeSafeLoadNext(s, it, NewModel)
    IN IF r.err = "ErrIteratorDone" THEN r.iter.yielded ELSE Drain(s, r.iter)

ScanAll(s, prefix) ==
    Drain(s, TablePrefixScan(s, prefix, NilBytes, NilBytes).iter)

\* C17: no Create, Update or Delete on one table changes what Has, GetOne or
\* a scan return on a table with another prefix byte in the same store.
C17_NamespaceIsolation ==
    [][(nops' = nops + 1 /\ call'.op \in {"Create", "Update", "Delete"})
       => \A q \in Prefixes \ {call'.prefix} :
             /\ \A k \in RowIDs :
                   /\ Has(store', q, k) = Has(store, q, k)
                   /\ GetOne(store', q, k, NewModel)
                         = GetOne(store, q, k, NewModel)
             /\ ScanAll(store', q) = ScanAll(store, q)]_vars

\* C20: Delete(k) on a k under which nothing is stored leaves the store as
\* it was, enters no AfterDelete interceptor and returns an error, which is
\* ErrNotFound when k is non-empty.
C20_DeleteAbsent ==
    [][(/\ nops' = nops + 1 /\ call'.op = "Delete"
        /\ Key(call') \notin DOMAIN store)
       => (/\ store' = store
           /\ pc' = "idle" /\ invoked' = <<>>
           /\ ret'.err # "nil"
           /\ Len(call'.rowID) > 0 => ret'.err = "ErrNotFound")]_vars

\* Delete(<<1>>) was refused while <<1, 1>> is in the same table
C20_Witness ==
    /\ call.op = "Delete" /\ call.rowID = <<1>>
    /\ ret.err = "ErrNotFound"
    /\ Key(call) \notin DOMAIN store
    /\ <<call.prefix, 1, 1>> \in DOMAIN store

\* C18: the Table returned by Build carries exactly the interceptors that
\* were registered on the Builder before that Build, in registration order;
\* an interceptor added later is never invoked by that Table, and no Table
\* operation changes its interceptor lists.
C18_BuildSnapshot ==
    bld.table.exists
    => /\ afterSave = bld.table.snapSave
       /\ afterDelete = bld.table.snapDelete
       /\ \A j \in 1..Len(invoked) :
             /\ j <= Len(ChainOf(call.op))
             /\ invoked[j].name =
                   (IF call.op = "Delete" THEN bld.table.snapDelete
                    ELSE bld.table.snapSave)[j]

\* the Builder got a further AfterSave interceptor, written into the array
\* it shares with the Table, and a Create of the Table ran its whole chain
C18_Witness ==
    /\ bld.table.exists
    /\ Len(bld.regSave) > Len(bld.table.snapSave)
    /\ bld.afterSave.arr = bld.table.afterSave.arr
    /\ call.op = "Create" /\ pc = "idle" /\ ret.err = "nil"
    /\ Len(invoked) = Len(bld.table.snapSave) /\ Len(invoked) >= 3

\* C19: a Builder constructed with a nil record prototype or a nil codec
\* panics in the constructor: no Builder and no Table has a nil model or a
\* nil codec.
C19_NoNilConfig ==
    /\ bld.state = "builder" => (bld.model # "nil" /\ bld.cdc # "nil")
    /\ bld.table.exists =>
          (bld.table.model # "nil" /\ bld.table.cdc # "nil")

\* a record of the table's type that passes validation
Acceptable(obj) == Typed(obj) /\ obj.validate # "fail"

\* C21: Create(k, r) on a row id k that already holds a record replaces the
\* stored record by r, hands oldValue = nil to every AfterSave interceptor,
\* and returns nil when no interceptor fails.
C21_CreateOverwrites ==
    (/\ call.op = "Create" /\ ~call.before.nil /\ Acceptable(call.obj))
    => /\ Stored(store, call.prefix, call.rowID)
             = Bytes(Marshal(call.obj.val))
       /\ call.old = NilObj
       /\ \A j \in 1..Len(invoked) : invoked[j].old = NilObj
       /\ ret.err \in {"pending", "nil", "ErrInterceptor"}
       /\ (pc = "idle" /\ \A j \in 1..Len(invoked) : ~invoked[j].failed)
             => (ret.err = "nil" /\ Len(invoked) = Len(afterSave))

\* a Create replaced another record and ran the whole AfterSave chain
C21_Witness ==
    /\ call.op = "Create" /\ pc = "idle" /\ ret.err = "nil"
    /\ ~call.before.nil /\ call.before.bytes # Marshal(call.obj.val)
    /\ Len(invoked) = Len(afterSave) /\ Len(invoked) >= 2

\* C22: in Update(k, new) every AfterSave interceptor receives (k, new,
\* old), in Delete(k) every AfterDelete interceptor receives (k, old), where
\* old is the record that was stored under exactly k when the operation was
\* called; Delete has removed it.
C22_OldValue ==
    (call.op \in {"Update", "Delete"} /\ ret.err \in {"pending", "nil"})
    => /\ ~call.before.nil
       /\ Typed(call.old)
       /\ Unmarshal(call.before.bytes, ZeroNFT)
             = [err |-> "nil", m |-> call.old.val]
       /\ call.op = "Delete" => Key(call) \notin DOMAIN store
       /\ \A j \in 1..Len(invoked) :
             /\ invoked[j].rowID = call.rowID
             /\ invoked[j].old = call.old
             /\ invoked[j].new =
                   (IF call.op = "Update" THEN call.obj ELSE NilObj)

\* an Update of row <<1>> changed its record and ran both interceptors while
\* <<1, 1>> of the same table holds another record than the old one
C22_Witness ==
    /\ call.op = "Update" /\ pc = "idle" /\ ret.err = "nil"
    /\ call.rowID = <<1>> /\ Len(invoked) >= 2
    /\ call.old.val # call.obj.val
    /\ <<call.prefix, 1, 1>> \in DOMAIN store
    /\ store[<<call.prefix, 1, 1>>] # call.before.bytes

ReadOps == {"GetOne", "Has", "PrefixScan", "ReversePrefixScan", "LoadNext"}

\* C23: GetOne, Has, PrefixScan, ReversePrefixScan and LoadNext write and
\* delete no key, whether they succeed or return an error, and invoke no
\* interceptor.
C23_ReadOnly ==
    [][call'.op \in ReadOps
       => (/\ store' = store
           /\ invoked' = <<>>
           /\ pc' = "idle" /\ pc = "idle")]_vars

\* a LoadNext failed on a row after an earlier one had loaded a row
C23_Witness ==
    /\ call.op = "LoadNext" /\ ret.err = "ErrType"
    /\ Len(iter.yielded) >= 2 /\ iter.yielded[1].err = "nil"
    /\ Cardinality(DOMAIN store) >= 2

\* the row ids present in a table
RowIDsOf(s, prefix) ==
    {Strip(<<prefix>>, k) : k \in {x \in DOMAIN s : IsPrefixOf(<<prefix>>, x)}}

\* C24: after a successful Update(k, r) on an existing row id k, GetOne(k,
\* dest) yields dest equal to r, and the table holds the same row ids as
\* before the Update.
C24_UpdateThenGet ==
    [][(/\ call'.op = "Update" /\ ret'.err \in {"pending", "nil"})
       => (/\ Key(call') \in DOMAIN store
           /\ LET g == GetOne(store', call'.prefix, call'.rowID, NewModel)
              IN g.err = "nil" /\ g.dest.val = call'.obj.val
           /\ \A p \in Prefixes : RowIDsOf(store', p) = RowIDsOf(store, p))]_vars

\* an Update changed the record of a row of a table that holds another row
C24_Witness ==
    /\ call.op = "Update" /\ pc = "idle" /\ ret.err = "nil"
    /\ ~call.before.nil /\ call.before.bytes # Marshal(call.obj.val)
    /\ Cardinality(RowIDsOf(store, call.prefix)) >= 2

\* C25: Create(k, _), Update(k, _) and Delete(k) change at most the store
\* entry at prefix+k (the interceptors write nothing): every other key of
\* the store, of this table and of the others, is present or absent as
\* before and keeps its value.
C25_SingleEntry ==
    [][call'.op \in {"Create", "Update", "Delete"}
       => \A key \in (DOMAIN store \cup DOMAIN store') \ {Key(call')} :
             /\ key \in DOMAIN store /\ key \in DOMAIN store'
             /\ store'[key] = store[key]]_vars

\* an Update changed the record of a row while another table holds a record
\* under the same row id
C25_Witness ==
    /\ call.op = "Update" /\ pc = "idle" /\ ret.err = "nil"
    /\ Len(call.rowID) > 0
    /\ Stored(store, call.prefix, call.rowID) # call.before
    /\ \E q \in Prefixes \ {call.prefix} : <<q>> \o call.rowID \in DOMAIN store

\* C26: a Create or Update that returns nil has invoked every AfterSave
\* interceptor once, in order, and no AfterDelete interceptor; a Delete that
\* returns nil has invoked every AfterDelete interceptor once and no
\* AfterSave interceptor.
C26_WholeChain ==
    (/\ call.op \in {"Create", "Update", "Delete"}
     /\ pc = "idle" /\ ret.err = "nil")
    => /\ Len(invoked) = Len(ChainOf(call.op))
       /\ \A j \in 1..Len(invoked) :
             /\ invoked[j].name = ChainOf(call.op)[j]
             /\ invoked[j].chain =
                   (IF call.op = "Delete" THEN "afterDelete" ELSE "afterSave")
             /\ ~invoked[j].failed
             /\ \A i \in 1..Len(invoked) :
                   invoked[i].name = invoked[j].name => i = j
       /\ \A j \in 1..Len(invoked) :
             invoked[j].name \notin
                {(IF call.op = "Delete" THEN afterSave ELSE afterDelete)[i] :
                    i \in 1..Len(IF call.op = "Delete" THEN afterSave
                                 ELSE afterDelete)}

\* a Delete returned nil after at least two AfterDelete interceptors
C26_Witness ==
    /\ call.op = "Delete" /\ pc = "idle" /\ ret.err = "nil"
    /\ Len(invoked) >= 2 /\ Len(afterSave) >= 2

\* C27: a LoadNext that finds the cursor valid moves it on by one row, also
\* when loading the row fails: the rows addressed by the LoadNext calls of
\* an iterator are the rows of its cursor, one after the other, and none is
\* addressed twice.
C27_AdvanceOnError ==
    iter.kind = "typeSafe"
    => /\ iter.pos = Len(iter.yielded)
       /\ Len(iter.yielded) <= Len(iter.cursor)
       /\ \A j \in 1..Len(iter.yielded) :
             /\ iter.yielded[j].rowID = iter.cursor[j]
             /\ \A i \in 1..Len(iter.yielded) :
                   iter.yielded[i].rowID = iter.yielded[j].rowID => i = j

\* a LoadNext with a wrong destination returned ErrType and the next one
\* loaded the following row
C27_Witness ==
    /\ iter.kind = "typeSafe" /\ Len(iter.yielded) >= 2
    /\ iter.yielded[1].err = "ErrType"
    /\ iter.yielded[2].err = "nil"
    /\ iter.yielded[2].rowID # iter.yielded[1].rowID
    /\ call.op = "LoadNext" /\ ret.err = "nil"

====
